---- MODULE Spec2Model ----
(***************************************************************************)
(* NeuroPlanner (src/script.js): the in-memory appState, the LocalStorage  *)
(* record 'neuroPlannerData', the task lifecycle operations and the task   *)
(* ordering algorithm, as a state machine.                                 *)
(*                                                                         *)
(* JavaScript values are modelled by records [t, s, n] of one shape:       *)
(*   strings  [t |-> "string", s |-> <<characters>>, n |-> 0]              *)
(*   numbers  [t |-> "number", s |-> <<>>, n |-> integer]                  *)
(*   NaN      [t |-> "nan",    s |-> <<>>, n |-> 0]                        *)
(*   null     [t |-> "null",   s |-> <<>>, n |-> 0]                        *)
(* A string is the sequence of its characters, so that trim, parseInt,    *)
(* toString and the JSON conversions are computed character by character. *)
(***************************************************************************)
EXTENDS Integers, Sequences, FiniteSets, TLC

VARIABLES appState, localStorage, now, phase, last, ordered

vars == <<appState, localStorage, now, phase, last, ordered>>

-----------------------------------------------------------------------------
(* Bounds of the model *)

\* most records (tasks plus history entries) the model lets the lists hold
MaxTasks == 2

\* the clock (Date.now(), in ms) runs from 1 to MaxClock
MaxClock == 2

\* longest task list the ordering engine is fed in SpecOrder
MaxLen == 2

-----------------------------------------------------------------------------
(* JavaScript values *)

Str(s) == [t |-> "string", s |-> s, n |-> 0]
Num(n) == [t |-> "number", s |-> <<>>, n |-> n]
NaN == [t |-> "nan", s |-> <<>>, n |-> 0]
Null == [t |-> "null", s |-> <<>>, n |-> 0]

\* ToBoolean: "", 0, NaN and null are falsy, everything else truthy
Truthy(v) ==
    CASE v.t = "string" -> Len(v.s) > 0
      [] v.t = "number" -> v.n # 0
      [] OTHER -> FALSE

Digit == <<"0", "1", "2", "3", "4", "5", "6", "7", "8", "9">>

IsDigit(c) == \E d \in 1..10 : Digit[d] = c

DigitValue(c) == (CHOOSE d \in 1..10 : Digit[d] = c) - 1

IsWhiteSpace(c) == c = " "

\* Number.prototype.toString for an integer: its decimal digits
RECURSIVE NatToString(_)
NatToString(n) ==
    IF n < 10 THEN <<Digit[n + 1]>>
    ELSE NatToString(n \div 10) \o <<Digit[(n % 10) + 1]>>

NumberToString(n) == IF n < 0 THEN <<"-">> \o NatToString(-n) ELSE NatToString(n)

\* ToString of a value, as parseInt applies it to its argument
ToStringJS(v) ==
    CASE v.t = "string" -> v.s
      [] v.t = "number" -> NumberToString(v.n)
      [] v.t = "nan" -> <<"N", "a", "N">>
      [] OTHER -> <<"n", "u", "l", "l">>

RECURSIVE TrimStart(_)
TrimStart(s) ==
    IF s # <<>> /\ IsWhiteSpace(Head(s)) THEN TrimStart(Tail(s)) ELSE s

RECURSIVE TrimEnd(_)
TrimEnd(s) ==
    IF s # <<>> /\ IsWhiteSpace(s[Len(s)]) THEN TrimEnd(SubSeq(s, 1, Len(s) - 1))
    ELSE s

\* String.prototype.trim
trim(s) == TrimEnd(TrimStart(s))

\* the longest prefix of s made of digits
RECURSIVE DigitPrefix(_)
DigitPrefix(s) ==
    IF s # <<>> /\ IsDigit(Head(s)) THEN <<Head(s)>> \o DigitPrefix(Tail(s))
    ELSE <<>>

RECURSIVE DigitsValue(_)
DigitsValue(ds) ==
    IF ds = <<>> THEN 0
    ELSE 10 * DigitsValue(SubSeq(ds, 1, Len(ds) - 1)) + DigitValue(ds[Len(ds)])

\* parseInt(v): leading white space skipped, an optional sign, then the
\* longest run of digits; NaN when there is no digit
parseInt(v) ==
    LET s == TrimStart(ToStringJS(v))
        neg == s # <<>> /\ Head(s) = "-"
        body == IF s # <<>> /\ Head(s) \in {"-", "+"} THEN Tail(s) ELSE s
        ds == DigitPrefix(body)
    IN  IF ds = <<>> THEN NaN
        ELSE Num(IF neg THEN -DigitsValue(ds) ELSE DigitsValue(ds))

\* ToNumber, as the operator - applies it to its operands
ToNumber(v) ==
    CASE v.t = "number" -> v
      [] v.t = "nan" -> NaN
      [] v.t = "null" -> Num(0)
      [] OTHER ->
            LET s == trim(v.s)
                neg == s # <<>> /\ Head(s) = "-"
                body == IF s # <<>> /\ Head(s) \in {"-", "+"} THEN Tail(s) ELSE s
            IN  IF s = <<>> THEN Num(0)
                ELSE IF body # <<>> /\ DigitPrefix(body) = body
                     THEN Num(IF neg THEN -DigitsValue(body) ELSE DigitsValue(body))
                     ELSE NaN

\* a - b
Minus(a, b) ==
    LET x == ToNumber(a)
        y == ToNumber(b)
    IN  IF x.t = "nan" \/ y.t = "nan" THEN NaN ELSE Num(x.n - y.n)

\* Math.abs
MathAbs(v) ==
    LET x == ToNumber(v)
    IN  IF x.t = "nan" THEN NaN ELSE Num(IF x.n < 0 THEN -x.n ELSE x.n)

\* new Date(ms).toISOString(): the text of the instant ms; the calendar
\* fields are abridged to the millisecond count between "T" and "Z"
toISOString(ms) == Str(<<"T">> \o NatToString(ms) \o <<"Z">>)

\* the instant an ISO text denotes (new Date(text).getTime())
IsoTime(v) == DigitsValue(DigitPrefix(Tail(v.s)))

-----------------------------------------------------------------------------
(* JSON.stringify and JSON.parse *)

Quote == "\""

Backslash == "\\"

\* the characters of a string as JSON writes them between the quotes
RECURSIVE Escape(_)
Escape(s) ==
    IF s = <<>> THEN <<>>
    ELSE IF Head(s) \in {Quote, Backslash}
         THEN <<Backslash, Head(s)>> \o Escape(Tail(s))
         ELSE <<Head(s)>> \o Escape(Tail(s))

\* the characters a JSON string text denotes
RECURSIVE Unescape(_)
Unescape(s) ==
    IF s = <<>> THEN <<>>
    ELSE IF Head(s) = Backslash /\ Len(s) > 1
         THEN <<s[2]>> \o Unescape(Tail(Tail(s)))
         ELSE <<Head(s)>> \o Unescape(Tail(s))

NullText == <<"n", "u", "l", "l">>

\* the JSON text of a primitive value: a string quoted, a finite number in
\* decimal, NaN and null both as null
StringifyValue(v) ==
    CASE v.t = "string" -> <<Quote>> \o Escape(v.s) \o <<Quote>>
      [] v.t = "number" -> NumberToString(v.n)
      [] OTHER -> NullText

\* ParseValue with every unquoted text but null kept as a string
ParseValueKeepsText(txt) ==
    IF txt = NullText THEN Null
    ELSE IF Head(txt) = Quote THEN Str(Unescape(SubSeq(txt, 2, Len(txt) - 1)))
    ELSE Str(txt)

\* the primitive value a JSON text denotes
ParseValue(txt) ==
    IF txt = NullText THEN Null
    ELSE IF Head(txt) = Quote THEN Str(Unescape(SubSeq(txt, 2, Len(txt) - 1)))
    ELSE IF Head(txt) = "-" THEN Num(-DigitsValue(Tail(txt)))
    ELSE Num(DigitsValue(txt))

\* an object: every own property, each value as JSON text
StringifyObject(o) == [f \in DOMAIN o |-> StringifyValue(o[f])]

ParseObject(d) == [f \in DOMAIN d |-> ParseValue(d[f])]

\* JSON.stringify(appState): the document. Objects and arrays keep their
\* structure; every leaf is the character text JSON writes for it.
JSONstringify(st) ==
    [tasks |-> [i \in 1..Len(st.tasks) |-> StringifyObject(st.tasks[i])],
     history |-> [i \in 1..Len(st.history) |-> StringifyObject(st.history[i])],
     currentEnergy |-> StringifyValue(st.currentEnergy),
     dailyRating |-> StringifyValue(st.dailyRating)]

\* JSON.parse of a document
JSONparse(d) ==
    [tasks |-> [i \in 1..Len(d.tasks) |-> ParseObject(d.tasks[i])],
     history |-> [i \in 1..Len(d.history) |-> ParseObject(d.history[i])],
     currentEnergy |-> ParseValue(d.currentEnergy),
     dailyRating |-> ParseValue(d.dailyRating)]

-----------------------------------------------------------------------------
(* The LocalStorage item 'neuroPlannerData' *)

\* no item under the key: getItem returns null
NoItem == [kind |-> "absent"]

\* an item holding a document written by JSON.stringify
JsonItem(d) == [kind |-> "json", doc |-> d]

\* an item holding other text: the empty string, or text JSON.parse rejects
RawItem(chars) == [kind |-> "raw", chars |-> chars]

\* texts that are not JSON: a document cut short
MalformedTexts == {<<"{">>, <<"{", Quote, "t", "a", "s", "k", "s", Quote, ":", "[">>}

\* if (stored): null and the empty string are falsy
StoredTruthy(item) ==
    CASE item.kind = "absent" -> FALSE
      [] item.kind = "raw" -> Len(item.chars) > 0
      [] OTHER -> TRUE

\* whether JSON.parse(item) throws SyntaxError
ParseThrows(item) == item.kind = "raw"

-----------------------------------------------------------------------------
(* appState *)

DefaultState ==
    [tasks |-> <<>>, history |-> <<>>, currentEnergy |-> Null, dailyRating |-> Null]

\* what a call did: the operation, its arguments, its result
Call(op, args, ret) == [op |-> op, args |-> args, ret |-> ret]

\* saveToStorage(), applied to the state st
saveToStorage(st) == JsonItem(JSONstringify(st))

\* loadFromStorage(), from the item stored: the state it leaves and whether
\* it threw
loadFromStorage(st, item) ==
    IF StoredTruthy(item)
    THEN IF ParseThrows(item)
         THEN [state |-> st, threw |-> TRUE]
         ELSE [state |-> JSONparse(item.doc), threw |-> FALSE]
    ELSE [state |-> st, threw |-> FALSE]

-----------------------------------------------------------------------------
(* Task management *)

\* a === b
StrictEquals(a, b) == a.t # "nan" /\ a = b

\* { ...a, ...b }: the properties of a, overridden and extended by those of b
Spread(a, b) ==
    [f \in DOMAIN a \cup DOMAIN b |-> IF f \in DOMAIN b THEN b[f] ELSE a[f]]

\* tasks.filter(t => t.id !== id)
FilterOut(tasks, id) ==
    LET Keep(t) == ~StrictEquals(t.id, id)
    IN  SelectSeq(tasks, Keep)

\* tasks.findIndex(t => t.id === id): the first index, 0 for the code's -1
findIndex(tasks, id) ==
    IF \E i \in 1..Len(tasks) : StrictEquals(tasks[i].id, id)
    THEN CHOOSE i \in 1..Len(tasks) :
            /\ StrictEquals(tasks[i].id, id)
            /\ \A j \in 1..(i - 1) : ~StrictEquals(tasks[j].id, id)
    ELSE 0

\* the validation of addTask: a required field is falsy
addTaskRejects(name, category, energy) ==
    ~Truthy(name) \/ ~Truthy(category) \/ ~Truthy(energy)

\* the task object addTask builds at clock value t
newTask(name, category, energy, priority, t) ==
    [id |-> Str(NumberToString(t)),
     name |-> Str(trim(name.s)),
     category |-> category,
     energy |-> parseInt(energy),
     priority |-> IF Truthy(priority) THEN parseInt(priority) ELSE Null,
     createdAt |-> toISOString(t)]

\* addTask with the task pushed and saved before the fields are validated
addTaskPushesFirst(st, name, category, energy, priority, t) ==
    LET pushed == [st EXCEPT !.tasks =
                        Append(@, newTask(name, category, energy, priority, t))]
    IN  IF addTaskRejects(name, category, energy)
        THEN [ret |-> "false", state |-> pushed, saved |-> TRUE]
        ELSE [ret |-> "true", state |-> pushed, saved |-> TRUE]

\* addTask(name, category, energy, priority) on the state st at clock value
\* t: the value returned, the state left, whether saveToStorage ran
addTask(st, name, category, energy, priority, t) ==
    IF addTaskRejects(name, category, energy)
    THEN [ret |-> "false", state |-> st, saved |-> FALSE]
    ELSE [ret |-> "true",
          state |-> [st EXCEPT !.tasks =
                        Append(@, newTask(name, category, energy, priority, t))],
          saved |-> TRUE]

\* editTask saving the state also when no task has the id
editTaskSavesAnyway(st, id, updates) ==
    LET taskIndex == findIndex(st.tasks, id)
    IN  IF taskIndex # 0
        THEN [ret |-> "true",
              state |-> [st EXCEPT !.tasks[taskIndex] = Spread(@, updates)],
              saved |-> TRUE]
        ELSE [ret |-> "false", state |-> st, saved |-> TRUE]

\* editTask putting the edited task at the end of tasks
editTaskMovesLast(st, id, updates) ==
    LET taskIndex == findIndex(st.tasks, id)
    IN  IF taskIndex # 0
        THEN [ret |-> "true",
              state |-> [st EXCEPT !.tasks =
                            SubSeq(@, 1, taskIndex - 1)
                                \o SubSeq(@, taskIndex + 1, Len(@))
                                \o <<Spread(@[taskIndex], updates)>>],
              saved |-> TRUE]
        ELSE [ret |-> "false", state |-> st, saved |-> FALSE]

\* editTask(id, updates)
editTask(st, id, updates) ==
    LET taskIndex == findIndex(st.tasks, id)
    IN  IF taskIndex # 0
        THEN [ret |-> "true",
              state |-> [st EXCEPT !.tasks[taskIndex] = Spread(@, updates)],
              saved |-> TRUE]
        ELSE [ret |-> "false", state |-> st, saved |-> FALSE]

\* deleteTask(id)
deleteTask(st, id) ==
    [ret |-> "undefined",
     state |-> [st EXCEPT !.tasks = FilterOut(@, id)],
     saved |-> TRUE]

\* completeTask with history.push in place of history.unshift
completeTaskPushesLast(st, id, t) ==
    LET i == findIndex(st.tasks, id)
    IN  IF i # 0
        THEN LET completedTask ==
                    Spread(st.tasks[i], [completedAt |-> toISOString(t)])
             IN  [ret |-> "undefined",
                  state |-> [st EXCEPT !.history = Append(@, completedTask),
                                       !.tasks = FilterOut(@, id)],
                  saved |-> TRUE]
        ELSE [ret |-> "undefined", state |-> st, saved |-> FALSE]

\* completeTask with history assigned the one new entry
completeTaskKeepsOnlyLatest(st, id, t) ==
    LET i == findIndex(st.tasks, id)
    IN  IF i # 0
        THEN LET completedTask ==
                    Spread(st.tasks[i], [completedAt |-> toISOString(t)])
             IN  [ret |-> "undefined",
                  state |-> [st EXCEPT !.history = <<completedTask>>,
                                       !.tasks = FilterOut(@, id)],
                  saved |-> TRUE]
        ELSE [ret |-> "undefined", state |-> st, saved |-> FALSE]

\* completeTask saving the state also when no task has the id
completeTaskSavesAnyway(st, id, t) ==
    LET i == findIndex(st.tasks, id)
    IN  IF i # 0
        THEN LET completedTask ==
                    Spread(st.tasks[i], [completedAt |-> toISOString(t)])
             IN  [ret |-> "undefined",
                  state |-> [st EXCEPT !.history = <<completedTask>> \o @,
                                       !.tasks = FilterOut(@, id)],
                  saved |-> TRUE]
        ELSE [ret |-> "undefined", state |-> st, saved |-> TRUE]

\* completeTask(id) at clock value t
completeTask(st, id, t) ==
    LET i == findIndex(st.tasks, id)
    IN  IF i # 0
        THEN LET completedTask ==
                    Spread(st.tasks[i], [completedAt |-> toISOString(t)])
             IN  [ret |-> "undefined",
                  state |-> [st EXCEPT !.history = <<completedTask>> \o @,
                                       !.tasks = FilterOut(@, id)],
                  saved |-> TRUE]
        ELSE [ret |-> "undefined", state |-> st, saved |-> FALSE]

\* the assignments of handleEnergySelect(energy)
handleEnergySelect(st, energy) ==
    [ret |-> "undefined",
     state |-> [st EXCEPT !.currentEnergy = parseInt(energy)],
     saved |-> TRUE]

\* the assignments of handleRating(rating)
handleRating(st, rating) ==
    [ret |-> "undefined",
     state |-> [st EXCEPT !.dailyRating = parseInt(rating)],
     saved |-> TRUE]

-----------------------------------------------------------------------------
(* Task ordering algorithm *)

\* withScore with a missing priority scored 3, the lowest explicit priority
withScoreMissingIsThree(task, currentEnergy) ==
    [f \in DOMAIN task \cup {"energyDiff", "priorityScore"} |->
        IF f = "energyDiff" THEN MathAbs(Minus(task.energy, currentEnergy))
        ELSE IF f = "priorityScore"
             THEN IF Truthy(task.priority) THEN task.priority ELSE Num(3)
             ELSE task[f]]

\* the decorated copy orderTasks makes of a task
withScore(task, currentEnergy) ==
    Spread(task,
           [energyDiff |-> MathAbs(Minus(task.energy, currentEnergy)),
            priorityScore |-> IF Truthy(task.priority) THEN task.priority ELSE Num(4)])

\* compare with the priority compared first and the energy difference second
comparePriorityFirst(a, b) ==
    IF ~StrictEquals(a.priorityScore, b.priorityScore)
    THEN Minus(a.priorityScore, b.priorityScore)
    ELSE Minus(a.energyDiff, b.energyDiff)

\* compare answering -1, not 0, for two tasks of equal keys
compareTiesAsLess(a, b) ==
    IF ~StrictEquals(a.energyDiff, b.energyDiff)
    THEN Minus(a.energyDiff, b.energyDiff)
    ELSE IF ~StrictEquals(a.priorityScore, b.priorityScore)
         THEN Minus(a.priorityScore, b.priorityScore)
         ELSE Num(-1)

\* the comparator given to sort
compare(a, b) ==
    IF ~StrictEquals(a.energyDiff, b.energyDiff)
    THEN Minus(a.energyDiff, b.energyDiff)
    ELSE Minus(a.priorityScore, b.priorityScore)

\* the comparator's result as Array.prototype.sort reads it: a number, NaN
\* counting as +0
SortCompare(a, b) ==
    LET v == ToNumber(compare(a, b))
    IN  IF v.t = "nan" THEN 0 ELSE v.n

\* x put into the sorted run s: moved left past every element it is
\* strictly less than, from the right end
RECURSIVE InsertSorted(_, _)
InsertSorted(s, x) ==
    IF s # <<>> /\ SortCompare(x, s[Len(s)]) < 0
    THEN Append(InsertSorted(SubSeq(s, 1, Len(s) - 1), x), s[Len(s)])
    ELSE Append(s, x)

\* a stable insertion sort, as the engines sort short arrays
RECURSIVE InsertionSort(_)
InsertionSort(s) ==
    IF s = <<>> THEN <<>>
    ELSE InsertSorted(InsertionSort(SubSeq(s, 1, Len(s) - 1)), s[Len(s)])

\* the comparator orders s consistently: it never answers NaN
Consistent(s) ==
    \A i, j \in 1..Len(s) : ToNumber(compare(s[i], s[j])).t # "nan"

Reorderings(s) ==
    {[i \in 1..Len(s) |-> s[p[i]]] :
        p \in {q \in [1..Len(s) -> 1..Len(s)] :
                \A i, j \in 1..Len(s) : q[i] = q[j] => i = j}}

\* the arrays sort may leave: the stable order when the comparator is
\* consistent, an implementation-defined order of the same elements otherwise
sort(s) == IF Consistent(s) THEN {InsertionSort(s)} ELSE Reorderings(s)

\* orderTasks sorting appState.tasks itself: the decorated, sorted array is
\* stored as tasks
orderTasksSortsInPlace(st, currentEnergy) ==
    IF ~Truthy(currentEnergy) \/ Len(st.tasks) = 0
    THEN [rets |-> {<<>>}, state |-> st, saved |-> FALSE]
    ELSE LET tasksWithScore ==
                [i \in 1..Len(st.tasks) |-> withScore(st.tasks[i], currentEnergy)]
             sorted == InsertionSort(tasksWithScore)
         IN  [rets |-> {sorted},
              state |-> [st EXCEPT !.tasks = sorted],
              saved |-> FALSE]

\* orderTasks ordering the tasks that have a priority only
orderTasksSkipsUnprioritised(st, currentEnergy) ==
    IF ~Truthy(currentEnergy) \/ Len(st.tasks) = 0
    THEN [rets |-> {<<>>}, state |-> st, saved |-> FALSE]
    ELSE LET Prioritised(task) == Truthy(task.priority)
             kept == SelectSeq(st.tasks, Prioritised)
             tasksWithScore ==
                [i \in 1..Len(kept) |-> withScore(kept[i], currentEnergy)]
         IN  [rets |-> sort(tasksWithScore), state |-> st, saved |-> FALSE]

\* orderTasks returning early for an empty task list only
orderTasksIgnoresUnset(st, currentEnergy) ==
    IF Len(st.tasks) = 0
    THEN [rets |-> {<<>>}, state |-> st, saved |-> FALSE]
    ELSE LET tasksWithScore ==
                [i \in 1..Len(st.tasks) |-> withScore(st.tasks[i], currentEnergy)]
         IN  [rets |-> sort(tasksWithScore), state |-> st, saved |-> FALSE]

\* orderTasks(currentEnergy) on the state st: the arrays it may return, the
\* state it leaves, whether saveToStorage ran
orderTasks(st, currentEnergy) ==
    IF ~Truthy(currentEnergy) \/ Len(st.tasks) = 0
    THEN [rets |-> {<<>>}, state |-> st, saved |-> FALSE]
    ELSE LET tasksWithScore ==
                [i \in 1..Len(st.tasks) |-> withScore(st.tasks[i], currentEnergy)]
         IN  [rets |-> sort(tasksWithScore), state |-> st, saved |-> FALSE]

\* renderTaskList() on the state st: the arrays it may render. Nothing is
\* ordered until an energy is set.
renderTaskList(st) ==
    IF ~Truthy(st.currentEnergy) THEN {<<>>}
    ELSE orderTasks(st, st.currentEnergy).rets

-----------------------------------------------------------------------------
(* Arguments the operations are called with *)

cooking == <<"c", "o", "o", "k", "i", "n", "g">>
cleaning == <<"c", "l", "e", "a", "n", "i", "n", "g">>
gym == <<"g", "y", "m">>
paperwork == <<"p", "a", "p", "e", "r", "w", "o", "r", "k">>
other == <<"o", "t", "h", "e", "r">>

\* the fixed categories
Categories == {Str(cooking), Str(cleaning), Str(gym), Str(paperwork), Str(other)}

\* the energy scale
EnergyLevels == {Num(k) : k \in 1..5}

\* the priority scale
Priorities == {Num(k) : k \in 1..3}

\* <<name, category, energy, priority>> of the addTask calls: form values
\* (strings) and direct calls (numbers, null)
AddTaskArgs ==
    {<<Str(<<>>), Str(cooking), Num(3), Null>>,
     <<Str(<<"a">>), Str(<<>>), Str(<<"3">>), Null>>,
     <<Str(<<"a">>), Str(gym), Null, Str(<<"2">>)>>,
     <<Str(<<" ">>), Str(<<"z", "z">>), Str(<<"x">>), Str(<<"2">>)>>,
     <<Str(<<" ", "b", " ">>), Str(gym), Str(<<"2">>), Str(<<"1">>)>>}

\* the updates of the editTask calls, as handleEditSubmit builds them
EditTaskUpdates ==
    {[name |-> Str(<<"c">>), category |-> Str(other), energy |-> Num(5),
      priority |-> Null]}

\* an id no task has
NoSuchId == Str(<<"0">>)

\* the ids the operations are called with
IdArgs(st) == {st.tasks[i].id : i \in 1..Len(st.tasks)} \cup {NoSuchId}

\* the values of the energy buttons and of a direct call
EnergyArgs == {Str(<<"3">>)}

RatingArgs == {Str(<<"4">>)}

\* the clock values a call may read: the clock never runs backwards
Clock == {t \in {now, now + 1} : t <= MaxClock}

-----------------------------------------------------------------------------
(* The state machine *)

\* the script is evaluated: appState is the literal, the page is loading
Init ==
    /\ appState = DefaultState
    /\ localStorage = NoItem
    /\ now = 1
    /\ phase = "boot"
    /\ last = Call("script", <<>>, "undefined")
    /\ ordered = <<>>

\* the effect on appState and the storage of a call whose result is r
Effect(r, call) ==
    /\ appState' = r.state
    /\ localStorage' = IF r.saved THEN saveToStorage(r.state) ELSE localStorage
    /\ last' = call
    /\ phase' = phase

\* the page is loaded again: the script is evaluated afresh
Reload ==
    /\ phase # "boot"
    /\ appState' = DefaultState
    /\ phase' = "boot"
    /\ last' = Call("script", <<>>, "undefined")
    /\ ordered' = <<>>
    /\ UNCHANGED <<localStorage, now>>

\* initApp: loadFromStorage, then the listeners are attached and the task
\* list is rendered; an exception ends initApp before any listener is attached
InitApp ==
    /\ phase = "boot"
    /\ LET r == loadFromStorage(appState, localStorage)
       IN  /\ appState' = r.state
           /\ phase' = IF r.threw THEN "crashed" ELSE "running"
           /\ last' = Call("loadFromStorage", <<>>,
                           IF r.threw THEN "throws" ELSE "undefined")
           /\ ordered' \in IF r.threw THEN {<<>>} ELSE renderTaskList(r.state)
    /\ UNCHANGED <<localStorage, now>>

Records(st) == Len(st.tasks) + Len(st.history)

AddTask ==
    /\ phase = "running"
    /\ \E a \in AddTaskArgs, t \in Clock :
        LET r == addTask(appState, a[1], a[2], a[3], a[4], t)
        IN  /\ r.ret = "true" => Records(appState) < MaxTasks
            /\ r.ret = "false" => t = now
            /\ Effect(r, Call("addTask", a, r.ret))
            /\ now' = t
    /\ ordered' = <<>>

EditTask ==
    /\ phase = "running"
    /\ \E id \in IdArgs(appState), updates \in EditTaskUpdates :
        LET r == editTask(appState, id, updates)
        IN  Effect(r, Call("editTask", <<id, updates>>, r.ret))
    /\ ordered' = <<>>
    /\ UNCHANGED now

DeleteTask ==
    /\ phase = "running"
    /\ \E id \in IdArgs(appState) :
        LET r == deleteTask(appState, id)
        IN  Effect(r, Call("deleteTask", <<id>>, r.ret))
    /\ ordered' = <<>>
    /\ UNCHANGED now

CompleteTask ==
    /\ phase = "running"
    /\ \E id \in IdArgs(appState), t \in Clock :
        LET r == completeTask(appState, id, t)
        IN  /\ ~r.saved => t = now
            /\ Effect(r, Call("completeTask", <<id>>, r.ret))
            /\ now' = t
    /\ ordered' = <<>>

\* handleEnergySelect: the energy is set and saved, the task list rendered
HandleEnergySelect ==
    /\ phase = "running"
    /\ \E energy \in EnergyArgs :
        LET r == handleEnergySelect(appState, energy)
        IN  /\ Effect(r, Call("handleEnergySelect", <<energy>>, r.ret))
            /\ ordered' \in renderTaskList(r.state)
    /\ UNCHANGED now

HandleRating ==
    /\ phase = "running"
    /\ \E rating \in RatingArgs :
        LET r == handleRating(appState, rating)
        IN  Effect(r, Call("handleRating", <<rating>>, r.ret))
    /\ ordered' = <<>>
    /\ UNCHANGED now

\* orderTasks(currentEnergy)
OrderTasks(currentEnergy) ==
    /\ phase = "running"
    /\ LET r == orderTasks(appState, currentEnergy)
       IN  /\ ordered' \in r.rets
           /\ appState' = r.state
           /\ localStorage' = IF r.saved THEN saveToStorage(r.state) ELSE localStorage
    /\ last' = Call("orderTasks", <<currentEnergy>>, "array")
    /\ UNCHANGED <<now, phase>>

\* renderTaskList called on its own (after a task is added, edited, deleted
\* or completed): with no energy set it calls nothing
RenderTaskList ==
    /\ Truthy(appState.currentEnergy)
    /\ OrderTasks(appState.currentEnergy)

Next ==
    \/ InitApp
    \/ Reload
    \/ AddTask
    \/ EditTask
    \/ DeleteTask
    \/ CompleteTask
    \/ HandleEnergySelect
    \/ HandleRating
    \/ RenderTaskList

Spec == Init /\ [][Next]_vars

-----------------------------------------------------------------------------
(* Start-up against any item the storage may hold *)

InitLoad ==
    /\ appState = DefaultState
    /\ localStorage \in {NoItem, RawItem(<<>>)} \cup {RawItem(m) : m \in MalformedTexts}
    /\ now = 1
    /\ phase = "boot"
    /\ last = Call("script", <<>>, "undefined")
    /\ ordered = <<>>

SpecLoad == InitLoad /\ [][Next]_vars

-----------------------------------------------------------------------------
(* The ordering engine on every list of valid tasks *)

\* the i-th task of a list: created at clock value i
validTask(i, energy, priority) ==
    [id |-> Str(NumberToString(i)),
     name |-> Str(<<"a">>),
     category |-> Str(gym),
     energy |-> energy,
     priority |-> priority,
     createdAt |-> toISOString(i)]

\* the lists of n valid tasks
ValidTaskLists(n) ==
    {[i \in 1..n |-> validTask(i, e[i], p[i])] :
        e \in [1..n -> EnergyLevels], p \in [1..n -> Priorities \cup {Null}]}

InitOrder ==
    /\ \E n \in 0..MaxLen : \E tasks \in ValidTaskLists(n) :
        appState = [DefaultState EXCEPT !.tasks = tasks]
    /\ localStorage = saveToStorage(appState)
    /\ now = MaxLen
    /\ phase = "running"
    /\ last = Call("loadFromStorage", <<>>, "undefined")
    /\ ordered = <<>>

NextOrder == \E currentEnergy \in EnergyLevels \cup {Null} : OrderTasks(currentEnergy)

SpecOrder == InitOrder /\ [][NextOrder]_vars

-----------------------------------------------------------------------------
(* Properties *)

\* how many records of the list carry the id
CountId(list, id) == Cardinality({i \in 1..Len(list) : list[i].id = id})

AllIds(st) ==
    {st.tasks[i].id : i \in 1..Len(st.tasks)}
        \cup {st.history[i].id : i \in 1..Len(st.history)}

\* C1: in every reachable state each task id occurs at most once in tasks, at
\* most once in history, and never in both, whatever the timing of the calls.
C1_IdsUnique ==
    \A id \in AllIds(appState) :
        CountId(appState.tasks, id) + CountId(appState.history, id) <= 1

\* C2: completeTask(id) on an id present in tasks leaves the id absent from
\* tasks and exactly once in history, the entry having completedAt set and
\* every other field equal to the task's value just before the call.
C2_CompleteTaskMovesTheTask ==
    [][(/\ last'.op = "completeTask"
        /\ findIndex(appState.tasks, last'.args[1]) # 0)
       => LET id == last'.args[1]
              task == appState.tasks[findIndex(appState.tasks, id)]
          IN  /\ CountId(appState'.tasks, id) = 0
              /\ CountId(appState'.history, id) = 1
              /\ \A i \in 1..Len(appState'.history) :
                    appState'.history[i].id = id =>
                        /\ DOMAIN appState'.history[i] = DOMAIN task \cup {"completedAt"}
                        /\ appState'.history[i].completedAt.t = "string"
                        /\ \A f \in DOMAIN task : appState'.history[i][f] = task[f]]_vars

\* the fields addTask is to refuse: a name empty after trimming, a category
\* outside the fixed set, an energy that is no integer from 1 to 5
InvalidFields(name, category, energy) ==
    \/ trim(name.s) = <<>>
    \/ category \notin Categories
    \/ ToNumber(energy) \notin EnergyLevels

\* C3: addTask returns false and adds no task when the name is empty after
\* trimming, the category is not one of the fixed set or the energy is not
\* an integer in 1..5; otherwise it returns true.
C3_AddTaskValidates ==
    [][last'.op = "addTask"
       => IF InvalidFields(last'.args[1], last'.args[2], last'.args[3])
          THEN last'.ret = "false" /\ appState'.tasks = appState.tasks
          ELSE last'.ret = "true"]_vars

\* C4: in every reachable state every task of tasks has an energy in 1..5
\* and a category of the fixed set.
C4_TasksInDomain ==
    \A i \in 1..Len(appState.tasks) :
        /\ appState.tasks[i].energy \in EnergyLevels
        /\ appState.tasks[i].category \in Categories

\* the arguments of the call addTask("", "cooking", 3, null)
EmptyNameCall == <<Str(<<>>), Str(cooking), Num(3), Null>>

\* C5: whenever addTask returns false, appState and the persisted record are
\* what they were before the call; addTask("", "cooking", 3, null) returns
\* false.
C5_RejectedAddTaskChangesNothing ==
    [][last'.op = "addTask"
       => /\ last'.ret = "false" => appState' = appState /\ localStorage' = localStorage
          /\ last'.args = EmptyNameCall => last'.ret = "false"]_vars

\* addTask("", "cooking", 3, null) has just returned false, with tasks and a
\* persisted record in place
C5_Witness ==
    /\ last.op = "addTask"
    /\ last.args = EmptyNameCall
    /\ last.ret = "false"
    /\ Len(appState.tasks) > 0
    /\ localStorage.kind = "json"

\* C6: loadFromStorage never fails its caller: with the item absent or its
\* content malformed the state is the default and initialisation goes on.
C6_LoadNeverFails ==
    last.op = "loadFromStorage"
        => /\ last.ret # "throws"
           /\ phase = "running"
           /\ localStorage.kind # "json" => appState = DefaultState

ValidTask(task) ==
    /\ task.id.t = "string"
    /\ task.name.t = "string" /\ task.name.s # <<>> /\ trim(task.name.s) = task.name.s
    /\ task.category \in Categories
    /\ task.energy \in EnergyLevels
    /\ task.priority \in Priorities \cup {Null}
    /\ task.createdAt.t = "string"

\* a valid AppState
ValidAppState(st) ==
    /\ \A i \in 1..Len(st.tasks) : ValidTask(st.tasks[i])
    /\ \A i \in 1..Len(st.history) :
        ValidTask(st.history[i]) /\ st.history[i].completedAt.t = "string"
    /\ st.currentEnergy \in EnergyLevels \cup {Null}
    /\ st.dailyRating \in EnergyLevels \cup {Null}

\* C7: for every valid AppState, saveToStorage followed by loadFromStorage
\* (into the state of a fresh page) yields the same state, field for field
\* and in the same order.
C7_SaveLoadRoundTrip ==
    (phase = "running" /\ ValidAppState(appState))
        => loadFromStorage(DefaultState, saveToStorage(appState))
            = [state |-> appState, threw |-> FALSE]

\* a valid state with a task, a history entry, a null and an explicit
\* priority, the energy set and the rating unset
C7_Witness ==
    /\ phase = "running"
    /\ ValidAppState(appState)
    /\ Len(appState.tasks) > 0
    /\ Len(appState.history) > 0
    /\ appState.history[1].priority = Null
    /\ appState.tasks[1].priority # Null
    /\ appState.currentEnergy # Null
    /\ appState.dailyRating = Null

\* the persisted record is absent with the state still the default, or is
\* the serialisation of the current state
RecordIsCurrent ==
    phase = "running"
        => \/ localStorage = NoItem /\ appState = DefaultState
           \/ localStorage = saveToStorage(appState)

\* C8: after every completed operation the persisted record is absent with
\* the state still the default, or is the serialisation of the current
\* state; so a reload restores exactly the current state.
C8_ReloadRestoresState ==
    /\ RecordIsCurrent
    /\ phase = "running"
        => loadFromStorage(DefaultState, localStorage)
            = [state |-> appState, threw |-> FALSE]

\* |task.energy - currentEnergy| of a decorated task, from the task's energy
Diff(x) ==
    LET d == x.energy.n - last.args[1].n
    IN  IF d < 0 THEN -d ELSE d

\* C9: for every list of tasks and every currentEnergy in 1..5 the result of
\* orderTasks is sorted ascending by (energyDiff, priorityScore), energyDiff
\* being |task.energy - currentEnergy|: a smaller energyDiff comes first
\* whatever the priorities, and at equal energyDiff a smaller explicit
\* priority comes first.
C9_SortedByEnergyThenPriority ==
    (last.op = "orderTasks" /\ last.args[1] \in EnergyLevels)
        => /\ \A i \in 1..Len(ordered) : ordered[i].energyDiff = Num(Diff(ordered[i]))
           /\ \A i \in 1..(Len(ordered) - 1) :
                \/ Diff(ordered[i]) < Diff(ordered[i + 1])
                \/ /\ Diff(ordered[i]) = Diff(ordered[i + 1])
                   /\ ordered[i].priorityScore.n <= ordered[i + 1].priorityScore.n
           /\ \A i, j \in 1..Len(ordered) :
                Diff(ordered[i]) < Diff(ordered[j]) => i < j
           /\ \A i, j \in 1..Len(ordered) :
                (/\ Diff(ordered[i]) = Diff(ordered[j])
                 /\ ordered[i].priority \in Priorities
                 /\ ordered[j].priority \in Priorities
                 /\ ordered[i].priority.n < ordered[j].priority.n) => i < j

\* two tasks were ordered, the second of tasks first: its energy is nearer
\* although its priority is lower
C9_Witness ==
    /\ last.op = "orderTasks"
    /\ last.args[1] \in EnergyLevels
    /\ Len(appState.tasks) = 2
    /\ Len(ordered) = 2
    /\ ordered[1].id = appState.tasks[2].id
    /\ ordered[2].id = appState.tasks[1].id
    /\ Diff(ordered[1]) < Diff(ordered[2])
    /\ ordered[1].priority = Num(3)
    /\ ordered[2].priority = Num(1)

\* C10: priorityScore is the task's priority when one is present and 4 when
\* it is absent, so a task with no priority comes after every task of the
\* same energyDiff with an explicit priority.
C10_MissingPriorityIsFour ==
    (last.op = "orderTasks" /\ last.args[1] \in EnergyLevels)
        => /\ \A i \in 1..Len(ordered) :
                ordered[i].priorityScore =
                    IF ordered[i].priority \in Priorities THEN ordered[i].priority
                    ELSE Num(4)
           /\ \A i, j \in 1..Len(ordered) :
                (/\ Diff(ordered[i]) = Diff(ordered[j])
                 /\ ordered[i].priority = Null
                 /\ ordered[j].priority \in Priorities) => j < i

\* tasks = [{energy: 2, priority: null}, {energy: 2, priority: 3}] ordered
\* for currentEnergy = 2: the task of priority 3 came first
C10_Witness ==
    /\ last.op = "orderTasks"
    /\ last.args[1] = Num(2)
    /\ Len(appState.tasks) = 2
    /\ appState.tasks[1].energy = Num(2) /\ appState.tasks[1].priority = Null
    /\ appState.tasks[2].energy = Num(2) /\ appState.tasks[2].priority = Num(3)
    /\ Len(ordered) = 2
    /\ ordered[1].id = appState.tasks[2].id
    /\ ordered[2].id = appState.tasks[1].id

\* the priorityScore of a task, from its priority
Score(x) == IF x.priority \in Priorities THEN x.priority.n ELSE 4

\* where the task of that id stands in the ordered result
Position(id) == CHOOSE k \in 1..Len(ordered) : ordered[k].id = id

\* C11: two tasks with identical (energyDiff, priorityScore) appear in the
\* result of orderTasks in the relative order they have in tasks: the sort
\* is stable.
C11_TiesKeepInputOrder ==
    (/\ last.op = "orderTasks"
     /\ last.args[1] \in EnergyLevels
     /\ Len(appState.tasks) > 0)
        => /\ {ordered[k].id : k \in 1..Len(ordered)}
                = {appState.tasks[i].id : i \in 1..Len(appState.tasks)}
           /\ \A i, j \in 1..Len(appState.tasks) :
                (/\ i < j
                 /\ Diff(appState.tasks[i]) = Diff(appState.tasks[j])
                 /\ Score(appState.tasks[i]) = Score(appState.tasks[j]))
                    => Position(appState.tasks[i].id) < Position(appState.tasks[j].id)

\* tasks of energy 3 and energy 1, both of priority 2, ordered for
\* currentEnergy = 2: equal keys, and the result keeps the task of energy 3
\* first
C11_Witness ==
    /\ last.op = "orderTasks"
    /\ last.args[1] = Num(2)
    /\ Len(appState.tasks) = 2
    /\ appState.tasks[1].energy = Num(3) /\ appState.tasks[1].priority = Num(2)
    /\ appState.tasks[2].energy = Num(1) /\ appState.tasks[2].priority = Num(2)
    /\ Len(ordered) = 2
    /\ ordered[1].id = appState.tasks[1].id
    /\ ordered[2].id = appState.tasks[2].id

\* C12: orderTasks returns the empty sequence whenever currentEnergy is
\* unset, however many tasks there are, and whenever tasks is empty,
\* whatever currentEnergy is.
C12_EmptyWithoutEnergyOrTasks ==
    (/\ last.op = "orderTasks"
     /\ last.args[1] = Null \/ Len(appState.tasks) = 0)
        => ordered = <<>>

\* orderTasks was called with currentEnergy unset on two tasks and returned
\* the empty sequence
C12_Witness ==
    /\ last.op = "orderTasks"
    /\ last.args[1] = Null
    /\ Len(appState.tasks) = 2
    /\ ordered = <<>>

\* C13: editTask(id, updates) returns false when no task of tasks has the
\* id, and then the in-memory state and the persisted record are unchanged;
\* it returns true when such a task exists.
C13_EditTaskReportsMissingId ==
    [][last'.op = "editTask"
       => IF CountId(appState.tasks, last'.args[1]) = 0
          THEN /\ last'.ret = "false"
               /\ appState' = appState
               /\ localStorage' = localStorage
          ELSE last'.ret = "true"]_vars

\* editTask has just returned false for an id no task has, with a task in
\* tasks
C13_Witness ==
    /\ last.op = "editTask"
    /\ last.ret = "false"
    /\ Len(appState.tasks) > 0
    /\ CountId(appState.tasks, last.args[1]) = 0

\* C14: a successful editTask(id, updates), updates being over name,
\* category, energy and priority, leaves the edited task's id and createdAt
\* unchanged, keeps the task at its position in tasks, and leaves every
\* other task, history, currentEnergy and dailyRating unchanged.
C14_EditTaskFrame ==
    [][(last'.op = "editTask" /\ last'.ret = "true")
       => /\ Len(appState'.tasks) = Len(appState.tasks)
          /\ \E k \in 1..Len(appState.tasks) :
                /\ appState.tasks[k].id = last'.args[1]
                /\ DOMAIN appState'.tasks[k] = DOMAIN appState.tasks[k]
                /\ appState'.tasks[k].id = appState.tasks[k].id
                /\ appState'.tasks[k].createdAt = appState.tasks[k].createdAt
                /\ \A i \in 1..Len(appState.tasks) :
                        i # k => appState'.tasks[i] = appState.tasks[i]
          /\ appState'.history = appState.history
          /\ appState'.currentEnergy = appState.currentEnergy
          /\ appState'.dailyRating = appState.dailyRating]_vars

\* the first of two tasks of different ids has just been edited: it carries
\* the new name and stands first, the second does not carry it
C14_Witness ==
    /\ last.op = "editTask"
    /\ last.ret = "true"
    /\ Len(appState.tasks) = 2
    /\ appState.tasks[1].id = last.args[1]
    /\ appState.tasks[2].id # last.args[1]
    /\ appState.tasks[1].name = last.args[2].name
    /\ appState.tasks[2].name # last.args[2].name
    /\ appState.currentEnergy # Null

\* the list without its k-th element
Without(list, k) == SubSeq(list, 1, k - 1) \o SubSeq(list, k + 1, Len(list))

\* the tasks of the list that carry another id, in their order
OthersOf(list, id) ==
    LET Other(t) == t.id # id
    IN  SelectSeq(list, Other)

\* what deleteTask does whatever the ids: every task carrying the id goes,
\* the tasks of other ids stay in their order, nothing else changes, and the
\* state is written to storage
DeleteTaskRemovesById ==
    [][last'.op = "deleteTask"
       => /\ last'.ret # "throws"
          /\ appState' = [appState EXCEPT !.tasks = OthersOf(@, last'.args[1])]
          /\ localStorage' = saveToStorage(appState')]_vars

\* C15: deleteTask(id) removes the task with that id from tasks when one is
\* present and leaves every other task, in the same relative order, history,
\* currentEnergy and dailyRating unchanged; when no task has the id the
\* in-memory state is unchanged and no error is raised; in both cases the
\* state is written to storage.
C15_DeleteTaskFrame ==
    [][last'.op = "deleteTask"
       => /\ last'.ret # "throws"
          /\ IF CountId(appState.tasks, last'.args[1]) = 0
             THEN appState' = appState
             ELSE /\ \E k \in 1..Len(appState.tasks) :
                        /\ appState.tasks[k].id = last'.args[1]
                        /\ appState'.tasks = Without(appState.tasks, k)
                  /\ appState'.history = appState.history
                  /\ appState'.currentEnergy = appState.currentEnergy
                  /\ appState'.dailyRating = appState.dailyRating
          /\ localStorage' = saveToStorage(appState')]_vars

\* C16: completeTask(id) with an id that no task of tasks has leaves tasks,
\* history and the persisted record unchanged and raises no error.
C16_CompleteTaskIgnoresMissingId ==
    [][(/\ last'.op = "completeTask"
        /\ CountId(appState.tasks, last'.args[1]) = 0)
       => /\ last'.ret # "throws"
          /\ appState'.tasks = appState.tasks
          /\ appState'.history = appState.history
          /\ localStorage' = localStorage]_vars

\* completeTask has just been called with an id no task has, with a task
\* in tasks and an entry in history
C16_Witness ==
    /\ last.op = "completeTask"
    /\ last.args[1] = NoSuchId
    /\ CountId(appState.tasks, NoSuchId) = 0
    /\ Len(appState.tasks) > 0
    /\ Len(appState.history) > 0

\* the fields orderTasks computes for display
ScoreFields == {"energyDiff", "priorityScore"}

\* C17: orderTasks has no side effects: a call with any currentEnergy leaves
\* appState (tasks with their fields and order, history, currentEnergy,
\* dailyRating) and the persisted record unchanged, and the stored tasks
\* never acquire the energyDiff or priorityScore fields.
C17_OrderTasksHasNoSideEffects ==
    [][last'.op = "orderTasks"
       => /\ appState' = appState
          /\ localStorage' = localStorage
          /\ \A i \in 1..Len(appState'.tasks) :
                DOMAIN appState'.tasks[i] \cap ScoreFields = {}]_vars

\* orderTasks has just returned two decorated tasks, the second of tasks
\* first; tasks is in its order, undecorated, and the record is its
\* serialisation
C17_Witness ==
    /\ last.op = "orderTasks"
    /\ Len(appState.tasks) = 2
    /\ Len(ordered) = 2
    /\ ordered[1].id = appState.tasks[2].id
    /\ ScoreFields \subseteq DOMAIN ordered[1]
    /\ DOMAIN appState.tasks[1] \cap ScoreFields = {}
    /\ appState.tasks[1].id = Str(NumberToString(1))
    /\ localStorage = saveToStorage(appState)

\* the instant an entry was completed at
CompletedAt(entry) == IsoTime(entry.completedAt)

\* history is ordered newest-first
HistoryNewestFirst ==
    \A i, j \in 1..Len(appState.history) :
        i < j => CompletedAt(appState.history[i]) >= CompletedAt(appState.history[j])

\* C18: in every state reachable from the empty state, the clock never
\* running backwards, history is ordered newest-first: of any two entries
\* the one nearer the front has a completedAt greater than or equal to the
\* other's; and each completeTask places the newly completed entry at
\* index 0.
C18_HistoryNewestFirst ==
    /\ []HistoryNewestFirst
    /\ [][(/\ last'.op = "completeTask"
           /\ CountId(appState.tasks, last'.args[1]) > 0)
          => /\ Len(appState'.history) > 0
             /\ appState'.history[1].id = last'.args[1]
             /\ CompletedAt(appState'.history[1]) = now']_vars

\* a second task has just been completed, later than the first: its entry
\* stands at index 0
C18_Witness ==
    /\ last.op = "completeTask"
    /\ Len(appState.history) = 2
    /\ appState.history[1].id = last.args[1]
    /\ CompletedAt(appState.history[1]) > CompletedAt(appState.history[2])

\* C19: history is append-only within a session: in any sequence of
\* operations after the load an entry once in history is never removed or
\* modified and the entries keep their relative order; addTask, editTask,
\* deleteTask, handleEnergySelect, handleRating and orderTasks leave history
\* unchanged, and only a completeTask on an id found in tasks changes it, by
\* adding one entry.
C19_HistoryAppendOnly ==
    [][(phase = "running" /\ phase' = "running")
       => IF /\ last'.op = "completeTask"
             /\ CountId(appState.tasks, last'.args[1]) > 0
          THEN \E k \in 1..Len(appState'.history) :
                    Without(appState'.history, k) = appState.history
          ELSE appState'.history = appState.history]_vars

\* a task has just been completed with an entry of another id in history
\* already: history holds both
C19_Witness ==
    /\ phase = "running"
    /\ last.op = "completeTask"
    /\ Len(appState.history) = 2
    /\ appState.history[1].id = last.args[1]
    /\ appState.history[2].id # last.args[1]

\* the fields of a task
TaskFields == {"id", "name", "category", "energy", "priority", "createdAt"}

\* the one-to-one correspondences of the indices 1..n
Bijections(n) ==
    {p \in [1..n -> 1..n] : \A i, j \in 1..n : p[i] = p[j] => i = j}

\* C20: when currentEnergy is set and tasks is not empty, the sequence
\* orderTasks returns is a permutation of tasks: it has the same length and
\* every task of tasks appears in it exactly once, with its id, name,
\* category, energy, priority and createdAt unchanged.
C20_OrderTasksPermutes ==
    (/\ last.op = "orderTasks"
     /\ last.args[1] \in EnergyLevels
     /\ Len(appState.tasks) > 0)
        => /\ Len(ordered) = Len(appState.tasks)
           /\ \E p \in Bijections(Len(appState.tasks)) :
                \A i \in 1..Len(ordered) :
                    /\ TaskFields \subseteq DOMAIN ordered[i]
                    /\ \A f \in TaskFields :
                            ordered[i][f] = appState.tasks[p[i]][f]

\* two tasks without priority, of different energies, have just been
\* ordered: both are in the result, in the other order
C20_Witness ==
    /\ last.op = "orderTasks"
    /\ last.args[1] \in EnergyLevels
    /\ Len(appState.tasks) = 2
    /\ appState.tasks[1].priority = Null
    /\ appState.tasks[2].priority = Null
    /\ appState.tasks[1].energy # appState.tasks[2].energy
    /\ Len(ordered) = 2
    /\ ordered[1].id = appState.tasks[2].id
    /\ ordered[2].id = appState.tasks[1].id

\* C21: in every reachable state completeTask(id) on an id present in tasks
\* removes exactly one task and adds exactly one history entry, so
\* length(tasks) + length(history) is the same before and after the call,
\* and no task other than the completed one disappears from tasks.
C21_CompleteTaskConservesRecords ==
    [][(/\ last'.op = "completeTask"
        /\ CountId(appState.tasks, last'.args[1]) > 0)
       => /\ Len(appState'.tasks) = Len(appState.tasks) - 1
          /\ Len(appState'.history) = Len(appState.history) + 1
          /\ Records(appState') = Records(appState)
          /\ \E k \in 1..Len(appState.tasks) :
                /\ appState.tasks[k].id = last'.args[1]
                /\ appState'.tasks = Without(appState.tasks, k)]_vars

====
